---- MODULE Spec2Model ----
(***************************************************************************)
(* Model of the chunking / indexing core of the Learnerator RAG pipeline   *)
(* (src/Sunny/rag_module/vector_database.py).                              *)
(*                                                                         *)
(* Texts are sequences of one-character strings.  Two specifications:      *)
(*   SpecChunk  runs VectorDatabase._chunk_text one loop iteration per     *)
(*              step, over every text up to MaxLen and every overlap       *)
(*              smaller than the chunk size;                               *)
(*   Spec       runs VectorDatabase.add_content / delete_by_url against    *)
(*              the Milvus collection;                                     *)
(*   SpecAsk    runs VectorDatabase.search and RAGChatbot.ask              *)
(*              (src/Sunny/rag_module/rag_chatbot.py) once against an      *)
(*              index whose rows have any similarity to the query.         *)
(* Similarities and confidences are in hundredths (0.5 is 50).             *)
(* chunk_size 500 / chunk_overlap 50 / id prefix 100 of the source are     *)
(* scaled down (ChunkSize, ChunkOverlap, IdPrefixLen) so that texts longer *)
(* than one chunk can be enumerated.                                       *)
(***************************************************************************)
EXTENDS Integers, Sequences, FiniteSets, TLC

\* ------------------------------------------------------------------ bounds
\* longest text SpecChunk enumerates
MaxLen == 8
\* most loop iterations of _chunk_text SpecChunk follows: a run that returns
\* moves start forward by at least one per iteration, a run that never leaves
\* the loop is cut here
MaxIter == MaxLen + 2
\* scaled self.chunk_size (500 in the source)
ChunkSize == 7
\* scaled self.chunk_overlap (50 in the source)
ChunkOverlap == 1
\* scaled length of the content prefix hashed into the id (100 in the source)
IdPrefixLen == 2
\* most rows the collection holds in Spec
MaxRecords == 3

\* ------------------------------------------------------- program constants
\* extract_web_content: len(text) < 100 is too short to be useful
MinWebLen == 100
\* extract_youtube_transcript: len(full_text) < 50 is too short to be useful
MinTranscriptLen == 50

\* ------------------------------------------------------------------ state
VARIABLES
    chunk_size,      \* self.chunk_size
    chunk_overlap,   \* self.chunk_overlap
    text,            \* argument of the running _chunk_text call
    start,           \* local `start` of _chunk_text
    chunks,          \* local `chunks` of _chunk_text; its return value at "done"
    windows,         \* history of the loop: <<start, end>> of every iteration
    pc,              \* position in _chunk_text: "idle", "call", "loop", "done"
    collection,      \* rows of the Milvus collection, in insertion order
    lastCall,        \* the last add_content / delete_by_url call and its outcome
    ingested,        \* history: url -> add_content calls that inserted rows
                     \*          since the url's last delete_by_url
    llm,             \* RAGChatbot.llm is set (an LLM was initialised)
    sims,            \* the score Milvus computes for each row against the query
    apc,             \* "idle", "ready" (a query is about to be served), "returned"
    response,        \* what the served search() / ask() call returned or raised
    searchLog,       \* the calls made on the way: vector_db.search, collection.search
    life,            \* history: url -> "never", "stored" (rows were inserted and
                     \*          no delete_by_url has returned True since) or
                     \*          "deleted" (delete_by_url returned True after that)
    workers,         \* the add_content calls running side by side, with their locals
    pipeline,        \* the pipeline server: its global state and requests in flight
    ldb              \* a LearningResourceVectorDB object and the last call made on it

askVars == <<llm, sims, apc, response, searchLog>>

laterVars == <<workers, pipeline, ldb>>

vars == <<chunk_size, chunk_overlap, text, start, chunks, windows, pc,
          collection, lastCall, ingested, llm, sims, apc, response, searchLog,
          life, workers, pipeline, ldb>>

\* ---------------------------------------------------- Python string helpers
Min(a, b) == IF a < b THEN a ELSE b
Max(a, b) == IF a > b THEN a ELSE b

\* characters str.strip() removes
Whitespace == {" ", "\n", "\t", "\r"}

\* a slice index as Python normalises it against a string of length n
NormIndex(i, n) == IF i < 0 THEN Max(i + n, 0) ELSE Min(i, n)

\* s[i:j]
Slice(s, i, j) ==
    LET a == NormIndex(i, Len(s))
        b == NormIndex(j, Len(s))
    IN  IF a >= b THEN << >> ELSE SubSeq(s, a + 1, b)

\* s[:n]
Prefix(s, n) == Slice(s, 0, n)

\* a mutant of RFind: the search runs to the end of the string, not to j
RFindPastEnd(s, sub, i, j) ==
    LET a == NormIndex(i, Len(s))
        hits == {k \in a..(Len(s) - Len(sub)) : SubSeq(s, k + 1, k + Len(sub)) = sub}
    IN  IF hits = {} THEN -1 ELSE CHOOSE k \in hits : \A h \in hits : h <= k

\* s.rfind(sub, i, j): the highest 0-based index of sub inside s[i:j], else -1
RFind(s, sub, i, j) ==
    LET a == NormIndex(i, Len(s))
        b == NormIndex(j, Len(s))
        hits == {k \in a..(b - Len(sub)) : SubSeq(s, k + 1, k + Len(sub)) = sub}
    IN  IF hits = {} THEN -1 ELSE CHOOSE k \in hits : \A h \in hits : h <= k

RECURSIVE LStrip(_)
LStrip(s) == IF s # << >> /\ Head(s) \in Whitespace THEN LStrip(Tail(s)) ELSE s

RECURSIVE RStrip(_)
RStrip(s) ==
    IF s # << >> /\ s[Len(s)] \in Whitespace THEN RStrip(SubSeq(s, 1, Len(s) - 1)) ELSE s

\* s.strip()
Strip(s) == RStrip(LStrip(s))

\* --------------------------------------------------------------- _chunk_text
\* the sentence endings tried, in this order
Puncts == << <<".", " ">>, <<"!", " ">>, <<"?", " ">>, <<"\n", "\n">> >>

\* the for-loop over the sentence endings: the first ending (in list order)
\* whose last occurrence in text[start:end] lies past the midpoint moves end
RECURSIVE SnapFrom(_, _, _, _, _)
SnapFrom(t, st, en, cs, i) ==
    IF i > Len(Puncts) THEN en
    ELSE LET last_punct == RFind(t, Puncts[i], st, en)
         IN  IF last_punct > st + (cs \div 2)
             THEN last_punct + Len(Puncts[i])
             ELSE SnapFrom(t, st, en, cs, i + 1)

\* `end` of one loop iteration
WindowEnd(t, st, cs) ==
    LET en == st + cs
    IN  IF en < Len(t) THEN SnapFrom(t, st, en, cs, 1) ELSE en

\* `chunk` of one loop iteration
ChunkOf(t, st, en) == Strip(Slice(t, st, en))

\* if chunk: chunks.append(chunk)
AppendChunk(cks, c) == IF c # << >> THEN Append(cks, c) ELSE cks

\* a mutant of NextStart: the next window begins one character late
NextStartLate(en, ov) == en - ov + 1

\* start = end - self.chunk_overlap
NextStart(en, ov) == en - ov

\* the whole loop, from `start`, as a function (used by add_content)
RECURSIVE ChunkLoop(_, _, _, _, _)
ChunkLoop(t, cs, ov, st, cks) ==
    IF ~(st < Len(t)) THEN cks
    ELSE LET en  == WindowEnd(t, st, cs)
             nxt == AppendChunk(cks, ChunkOf(t, st, en))
         IN  IF NextStart(en, ov) >= Len(t) THEN nxt
             ELSE ChunkLoop(t, cs, ov, NextStart(en, ov), nxt)

\* _chunk_text(text) under the configuration (cs, ov)
ChunkText(t, cs, ov) ==
    IF Len(t) <= cs THEN <<t>> ELSE ChunkLoop(t, cs, ov, 0, << >>)

\* ------------------------------------------------------------ _generate_id
Digit == <<"0", "1", "2", "3", "4", "5", "6", "7", "8", "9">>

\* str(i) for i >= 0
RECURSIVE IntStr(_)
IntStr(i) ==
    IF i < 10 THEN <<Digit[i + 1]>> ELSE IntStr(i \div 10) \o <<Digit[(i % 10) + 1]>>

\* a mutant of HashInput: the content is left out of the hashed string
HashInputNoContent(content, source_url, chunk_index) ==
    source_url \o <<":">> \o IntStr(chunk_index) \o <<":">>

\* f"{source_url}:{chunk_index}:{content[:100]}"
HashInput(content, source_url, chunk_index) ==
    source_url \o <<":">> \o IntStr(chunk_index) \o <<":">> \o Prefix(content, IdPrefixLen)

\* f"{content_hash}_{chunk_index}"; hashlib.md5 is taken to be injective, so
\* the digest is represented by the string it was computed from
GenerateId(content, source_url, chunk_index) ==
    [md5 |-> HashInput(content, source_url, chunk_index), suffix |-> chunk_index]

\* ------------------------------------------- add_content and delete_by_url
\* a mutant of Rows: chunk_index counts from 1
RowsOneBased(doc, cks) ==
    [i \in 1..Len(cks) |->
        [id           |-> GenerateId(cks[i], doc.url, i),
         content      |-> cks[i],
         source_url   |-> doc.url,
         content_type |-> doc.content_type,
         chunk_index  |-> i,
         total_chunks |-> Len(cks)]]

\* the rows add_content builds from the chunks of one document (title,
\* timestamp, metadata and the embedding vector are carried along unread by
\* the operations modelled here and are left out)
Rows(doc, cks) ==
    [i \in 1..Len(cks) |->
        [id           |-> GenerateId(cks[i], doc.url, i - 1),
         content      |-> cks[i],
         source_url   |-> doc.url,
         content_type |-> doc.content_type,
         chunk_index  |-> i - 1,
         total_chunks |-> Len(cks)]]

\* a mutant of Insert: the rows inserted replace what the collection held
InsertReplacing(coll, rows) == rows

\* self.collection.insert(data): Milvus appends the rows; it does not look
\* for rows that already carry the same primary key
Insert(coll, rows) == coll \o rows

\* two mutants of Delete: only the first chunk of the source goes; the
\* whole collection goes
DeleteFirstChunk(coll, source_url) ==
    SelectSeq(coll, LAMBDA r : r.source_url # source_url \/ r.chunk_index # 0)
DeleteEverything(coll, source_url) == << >>

\* self.collection.delete('source_url == "<url>"')
Delete(coll, source_url) == SelectSeq(coll, LAMBDA r : r.source_url # source_url)

\* the documents handed to add_content
Urls == {<<"u">>, <<"y">>}

ContentTypeOf(url) == IF url = <<"y">> THEN "youtube" ELSE "web"

Texts ==
    { << >>,
      <<"a", "b", "a">>,
      <<"a", "b", "b">>,
      <<"a", "b", "a", "a", ".", " ", "b", "b", "b", "b">>,
      <<" ", " ", " ", " ", " ", " ", " ", " ", " ", " ">> }

Docs == {[url |-> u, content |-> t, content_type |-> ContentTypeOf(u)] :
            u \in Urls, t \in Texts}

\* what can go wrong in the collaborators during one call
AddFaults == {"none", "embed", "insert", "flush"}
DeleteFaults == {"none", "delete", "flush"}

NoCall ==
    [op |-> "none", url |-> << >>, content |-> << >>, content_type |-> "",
     fault |-> "none", badChunk |-> 0, ret |-> FALSE, nchunks |-> 0, stored |-> 0, ids |-> << >>]

\* no chatbot query is being served
NoResponse == [op |-> "none"]

\* nothing else is running: no add_content side by side, no pipeline server,
\* no LearningResourceVectorDB object
LaterIdle ==
    /\ workers = << >>
    /\ pipeline = [op |-> "none"]
    /\ ldb = [op |-> "none"]

AskIdle ==
    /\ llm = FALSE
    /\ sims = << >>
    /\ apc = "idle"
    /\ response = NoResponse
    /\ searchLog = << >>

Init ==
    /\ chunk_size = ChunkSize
    /\ chunk_overlap = ChunkOverlap
    /\ text = << >>
    /\ start = 0
    /\ chunks = << >>
    /\ windows = << >>
    /\ pc = "idle"
    /\ collection = << >>
    /\ lastCall = NoCall
    /\ ingested = [u \in Urls |-> 0]
    /\ life = [u \in Urls |-> "never"]
    /\ AskIdle
    /\ LaterIdle

\* add_content(content_data); fault names the collaborator call that raises,
\* badChunk the chunk (1-based) whose model.encode raises when fault = "embed"
AddContent(doc, fault, badChunk) ==
    LET cks  == ChunkText(doc.content, chunk_size, chunk_overlap)
        rows == Rows(doc, cks)
        call == [op |-> "add_content", url |-> doc.url, content |-> doc.content,
                 content_type |-> doc.content_type, fault |-> fault,
                 badChunk |-> badChunk, ret |-> FALSE, nchunks |-> Len(cks),
                 stored |-> 0, ids |-> << >>]
    IN  /\ (fault = "embed") = (badChunk # 0)
        /\ badChunk <= Len(cks)
        /\ Len(collection) + Len(cks) <= MaxRecords
        /\ IF cks = << >>
           THEN \* "No chunks generated": return False
                /\ fault = "none"
                /\ lastCall' = call
                /\ UNCHANGED <<collection, ingested, life>>
           ELSE IF fault \in {"embed", "insert"}
           THEN \* the exception leaves the try block before any row is stored
                /\ lastCall' = call
                /\ UNCHANGED <<collection, ingested, life>>
           ELSE \* insert succeeded; flush may still raise
                /\ collection' = Insert(collection, rows)
                /\ ingested' = [ingested EXCEPT ![doc.url] = Min(@ + 1, 2)]
                /\ life' = [life EXCEPT ![doc.url] = "stored"]
                /\ lastCall' = [call EXCEPT !.ret = (fault = "none"),
                                            !.stored = Len(rows),
                                            !.ids = [i \in 1..Len(rows) |-> rows[i].id]]
        /\ UNCHANGED <<chunk_size, chunk_overlap, text, start, chunks, windows, pc>>
        /\ UNCHANGED askVars
        /\ UNCHANGED laterVars

\* delete_by_url(source_url)
DeleteByUrl(url, fault) ==
    LET call == [NoCall EXCEPT !.op = "delete_by_url", !.url = url, !.fault = fault]
    IN  /\ IF fault = "delete"
           THEN /\ lastCall' = call
                /\ UNCHANGED <<collection, ingested, life>>
           ELSE /\ collection' = Delete(collection, url)
                /\ ingested' = [ingested EXCEPT ![url] = 0]
                /\ life' = [life EXCEPT ![url] =
                               IF fault = "none" /\ @ # "never" THEN "deleted" ELSE @]
                /\ lastCall' = [call EXCEPT !.ret = (fault = "none")]
        /\ UNCHANGED <<chunk_size, chunk_overlap, text, start, chunks, windows, pc>>
        /\ UNCHANGED askVars
        /\ UNCHANGED laterVars

Next ==
    \/ \E doc \in Docs, fault \in AddFaults, badChunk \in 0..MaxRecords :
          AddContent(doc, fault, badChunk)
    \/ \E url \in Urls, fault \in DeleteFaults : DeleteByUrl(url, fault)

Spec == Init /\ [][Next]_vars

\* ------------------------------------------------ SpecChunk: the chunker loop
Alphabet == {"a", " ", "."}

RECURSIVE TextsOfLen(_)
TextsOfLen(n) ==
    IF n = 0 THEN {<< >>}
    ELSE {Append(s, c) : s \in TextsOfLen(n - 1), c \in Alphabet}

AllTexts == UNION {TextsOfLen(n) : n \in 0..MaxLen}

InitChunk ==
    /\ chunk_size = ChunkSize
    /\ chunk_overlap \in 0..(ChunkSize - 1)
    /\ text \in AllTexts
    /\ start = 0
    /\ chunks = << >>
    /\ windows = << >>
    /\ pc = "call"
    /\ collection = << >>
    /\ lastCall = NoCall
    /\ ingested = [u \in Urls |-> 0]
    /\ life = [u \in Urls |-> "never"]
    /\ AskIdle
    /\ LaterIdle

\* entry of _chunk_text: the early return for a text of at most chunk_size
ChunkCall ==
    /\ pc = "call"
    /\ IF Len(text) <= chunk_size
       THEN /\ chunks' = <<text>>
            /\ pc' = "done"
       ELSE /\ chunks' = << >>
            /\ pc' = "loop"
    /\ start' = 0
    /\ UNCHANGED <<chunk_size, chunk_overlap, text, windows, collection, lastCall, ingested>>
    /\ UNCHANGED askVars
    /\ UNCHANGED <<life, laterVars>>

\* one iteration of the while loop
ChunkIter ==
    /\ pc = "loop"
    /\ Len(windows) < MaxIter
    /\ LET en == WindowEnd(text, start, chunk_size)
       IN  /\ chunks' = AppendChunk(chunks, ChunkOf(text, start, en))
           /\ windows' = Append(windows, <<start, en>>)
           /\ start' = NextStart(en, chunk_overlap)
           /\ pc' = IF NextStart(en, chunk_overlap) >= Len(text) THEN "done" ELSE "loop"
    /\ UNCHANGED <<chunk_size, chunk_overlap, text, collection, lastCall, ingested>>
    /\ UNCHANGED askVars
    /\ UNCHANGED <<life, laterVars>>

NextChunk == ChunkCall \/ ChunkIter

SpecChunk == InitChunk /\ [][NextChunk]_vars

\* ------------------------------------------------------ claims on _chunk_text
\* the text a loop iteration cut, before trimming
WindowText(i) == Slice(text, windows[i][1], windows[i][2])

WindowTexts == [i \in 1..Len(windows) |-> WindowText(i)]

\* pieces[0] + pieces[1][ov:] + pieces[2][ov:] + ...
RECURSIVE Reassemble(_, _)
Reassemble(pieces, ov) ==
    IF pieces = << >> THEN << >>
    ELSE IF Len(pieces) = 1 THEN pieces[1]
    ELSE LET last == pieces[Len(pieces)]
         IN  Reassemble(SubSeq(pieces, 1, Len(pieces) - 1), ov) \o Slice(last, ov, Len(last))

\* the windows, trimmed, without the ones that trim to nothing
RECURSIVE TrimmedNonEmpty(_)
TrimmedNonEmpty(pieces) ==
    IF pieces = << >> THEN << >>
    ELSE AppendChunk(TrimmedNonEmpty(SubSeq(pieces, 1, Len(pieces) - 1)),
                     Strip(pieces[Len(pieces)]))

StartsNeverGoBack ==
    \A i \in 1..(Len(windows) - 1) : windows[i + 1][1] >= windows[i][1]

C2_StartStrictlyIncreases ==
    [][pc = "loop" /\ pc' \in {"loop", "done"} => start' > start]_vars

\* C3: no chunk is longer than chunk_size, and no window ends beyond
\* start + chunk_size (snapping only ever moves the end backwards)
C3_ChunkSizeBound ==
    /\ \A i \in 1..Len(chunks) : Len(chunks[i]) <= chunk_size
    /\ \A i \in 1..Len(windows) : windows[i][2] <= windows[i][1] + chunk_size

\* a returned run in which a window was snapped back to a sentence ending
C3_Witness ==
    /\ pc = "done"
    /\ Len(chunks) >= 2
    /\ \E i \in 1..Len(windows) :
          /\ windows[i][2] < windows[i][1] + chunk_size
          /\ Len(WindowText(i)) = windows[i][2] - windows[i][1]

\* C4 as stated: for a non-empty text every returned chunk is non-empty after
\* trimming
C4_ChunksNonEmptyAfterTrim ==
    pc = "done" /\ text # << >> =>
        \A i \in 1..Len(chunks) : Strip(chunks[i]) # << >>

\* ------------------------------------- claims on add_content / delete_by_url
RowsWithId(coll, id) == {k \in DOMAIN coll : coll[k].id = id}

RowsOfUrl(coll, url) == {k \in DOMAIN coll : coll[k].source_url = url}

IdSet(ids) == {ids[i] : i \in DOMAIN ids}

\* C5 as stated: a successful add_content directly repeated with the same
\* (url, text) yields the same ids and leaves exactly one row per id
C5_IdempotentReingestion ==
    [][(/\ lastCall.op = "add_content" /\ lastCall.ret
        /\ lastCall'.op = "add_content" /\ lastCall'.ret
        /\ lastCall'.url = lastCall.url
        /\ lastCall'.content = lastCall.content)
       => /\ IdSet(lastCall'.ids) = IdSet(lastCall.ids)
          /\ \A id \in IdSet(lastCall'.ids) :
                Cardinality(RowsWithId(collection', id)) = 1]_vars

\* C6 as stated: two stored chunks of the same (source_url, chunk_index) with
\* different content have different ids
C6_ChangedContentNewId ==
    \A i, j \in DOMAIN collection :
        (/\ collection[i].source_url = collection[j].source_url
         /\ collection[i].chunk_index = collection[j].chunk_index
         /\ collection[i].content # collection[j].content)
        => collection[i].id # collection[j].id

\* C6 amended: two stored chunks of the same (source_url, chunk_index) whose
\* content differs within the hashed prefix (the first 100 characters in the
\* source) have different ids, md5 collisions aside; a change after the prefix
\* keeps the id.
C6_ChangedPrefixNewId ==
    \A i, j \in DOMAIN collection :
        (/\ collection[i].source_url = collection[j].source_url
         /\ collection[i].chunk_index = collection[j].chunk_index
         /\ Prefix(collection[i].content, IdPrefixLen)
                # Prefix(collection[j].content, IdPrefixLen))
        => collection[i].id # collection[j].id

\* the same position of one url holds a chunk changed inside the prefix
\* beside a chunk changed only after it
C6_Witness ==
    \E i, j, k \in DOMAIN collection :
        /\ collection[i].source_url = collection[j].source_url
        /\ collection[i].source_url = collection[k].source_url
        /\ collection[i].chunk_index = collection[j].chunk_index
        /\ collection[i].chunk_index = collection[k].chunk_index
        /\ Prefix(collection[i].content, IdPrefixLen)
               # Prefix(collection[j].content, IdPrefixLen)
        /\ collection[i].id # collection[j].id
        /\ collection[i].content # collection[k].content
        /\ collection[i].id = collection[k].id

\* the stored chunks of one url are numbered 0..n-1 without repeats and all
\* carry total_chunks = n
WellNumbered(coll, url) ==
    LET rows == RowsOfUrl(coll, url)
    IN  /\ \A k1, k2 \in rows : k1 # k2 => coll[k1].chunk_index # coll[k2].chunk_index
        /\ {coll[k].chunk_index : k \in rows} = 0..(Cardinality(rows) - 1)
        /\ \A k \in rows : 0 <= coll[k].chunk_index /\ coll[k].chunk_index < coll[k].total_chunks
        /\ \A k1, k2 \in rows : coll[k1].total_chunks = coll[k2].total_chunks

\* C7 as stated: after any sequence of add_content and delete_by_url the
\* stored chunks of every url are well numbered
C7_StoredChunkInvariant ==
    \A url \in Urls : WellNumbered(collection, url)

\* C7 amended: every stored chunk satisfies 0 <= chunk_index < total_chunks,
\* and the stored chunks of a url are pairwise distinct in chunk_index,
\* contiguous from 0 and equal in total_chunks (= their number) as long as
\* that url had rows inserted by at most one add_content call since its rows
\* were last deleted; a second add_content without a delete in between
\* breaks this.
C7_SingleIngestionInvariant ==
    /\ \A k \in DOMAIN collection :
          0 <= collection[k].chunk_index
          /\ collection[k].chunk_index < collection[k].total_chunks
    /\ \A url \in Urls :
          ingested[url] <= 1 =>
              /\ WellNumbered(collection, url)
              /\ \A k \in RowsOfUrl(collection, url) :
                    collection[k].total_chunks = Cardinality(RowsOfUrl(collection, url))

\* a successful add_content has just stored several chunks of a url that held
\* no rows before
C7_Witness ==
    \E url \in Urls :
        /\ ingested[url] = 1
        /\ Cardinality(RowsOfUrl(collection, url)) >= 2
        /\ lastCall.op = "add_content"
        /\ lastCall.url = url
        /\ lastCall.ret

\* the minimum usable length of the extractors
MinUsableLen(content_type) ==
    IF content_type = "youtube" THEN MinTranscriptLen ELSE MinWebLen

\* C8 as stated: add_content of a text shorter than the minimum usable
\* length fails and stores nothing
C8_ShortContentRejected ==
    (lastCall.op = "add_content"
     /\ Len(lastCall.content) < MinUsableLen(lastCall.content_type))
    => (~lastCall.ret /\ lastCall.stored = 0)

\* C9 as stated: when the embedding of one chunk fails, the other chunks of
\* the document are still stored
C9_EmbeddingFailureNonFatal ==
    (lastCall.op = "add_content" /\ lastCall.fault = "embed" /\ lastCall.nchunks >= 2)
    => lastCall.stored = lastCall.nchunks - 1

\* C10 as stated: add_content returns True exactly when rows of that call
\* were stored
C10_SuccessIffStored ==
    lastCall.op = "add_content" => (lastCall.ret <=> lastCall.stored >= 1)

(***************************************************************************)
(* VectorDatabase.search and RAGChatbot.ask                                *)
(***************************************************************************)

\* largest max_sources a caller passes in the runs explored here
MaxSources == 2

\* the scores Milvus can report for a row, in hundredths: below, at and
\* above the relevance threshold, and below, between and above the two
\* confidence clamps
SimValues == {30, 40, 50, 55, 90, 95}

\* filter_expr = f'content_type == "{content_type}"' when a content type is
\* given: the rows the expression lets through
Matching(coll, content_type) ==
    {i \in 1..Len(coll) : content_type = "None" \/ coll[i].content_type = content_type}

\* the orders in which Milvus may rank a set of rows under the COSINE
\* metric: best score first, rows of equal score in any order
RankedOrders(rowset, sm) ==
    {o \in [1..Cardinality(rowset) -> rowset] :
        /\ \A j, k \in DOMAIN o : j # k => o[j] # o[k]
        /\ \A k \in 1..(Cardinality(rowset) - 1) : sm[o[k]] >= sm[o[k + 1]]}

\* self.collection.search(data=[query_embedding], limit=limit, expr=...):
\* results[0], the first `limit` rows of the ranking, each with its score
CollectionSearch(coll, sm, limit, order) ==
    [k \in 1..Min(limit, Len(order)) |->
        [id |-> coll[order[k]].id, entity |-> coll[order[k]], score |-> sm[order[k]]]]

\* the loop over results[0]: one SearchResult per hit, in the order of the hits
SearchResultsOf(hits) ==
    [k \in 1..Len(hits) |->
        [chunk |-> [id           |-> hits[k].id,
                    content      |-> hits[k].entity.content,
                    source_url   |-> hits[k].entity.source_url,
                    content_type |-> hits[k].entity.content_type,
                    chunk_index  |-> hits[k].entity.chunk_index,
                    total_chunks |-> hits[k].entity.total_chunks],
         similarity |-> hits[k].score]]

\* the limit search() hands to Milvus
IndexLimitDoubled(limit) == limit * 2
IndexLimit(limit) == limit

\* what can go wrong inside search(): the embedding model raises on the
\* query, or the collection (disconnected, dropped) raises on search
SearchFaults == {"none", "encode", "index"}

\* VectorDatabase.search(query, limit, content_type): the list it returns
\* and the calls it made on the collection
Search(coll, sm, query, limit, content_type, fault, order) ==
    LET icall == [call |-> "collection.search", limit |-> IndexLimit(limit),
                  expr |-> content_type]
    IN  IF fault = "encode"
        THEN \* self.model.encode raised: except Exception -> return []
             [ret |-> << >>, calls |-> << >>]
        ELSE IF fault = "index"
        THEN \* self.collection.search raised: except Exception -> return []
             [ret |-> << >>, calls |-> <<icall>>]
        ELSE [ret   |-> SearchResultsOf(CollectionSearch(coll, sm, IndexLimit(limit), order)),
              calls |-> <<icall>>]

\* similarity threshold of a relevant source (0.5), the confidence of the
\* hedged answer (0.3), of an answer composed without an LLM (0.5), and the
\* two clamps of the confidence of an LLM answer (0.6, 0.9), in hundredths
RelevanceThreshold == 50
HedgedConfidence == 30
SimpleConfidence == 50
MinLlmConfidence == 60
MaxLlmConfidence == 90

\* a confidence is a fraction of hundredths, so that a mean is kept exactly
Fraction(n, d) == [num |-> n, den |-> d]
Whole(n) == Fraction(n, 1)

\* the fields of the ChatResponse dataclass ask() constructs; error defaults
\* to None
ChatResponseFieldsNoError == {"answer", "sources", "confidence", "query"}
ChatResponseFields == {"answer", "sources", "confidence", "query", "error"}

\* ChatResponse(**kw): the dataclass constructor raises TypeError on a
\* keyword it does not declare
ChatResponse(kw) ==
    IF DOMAIN kw \subseteq ChatResponseFields
    THEN [raised |-> FALSE,
          value  |-> [f \in ChatResponseFields |-> IF f \in DOMAIN kw THEN kw[f] ELSE "None"]]
    ELSE [raised |-> TRUE, exc |-> "TypeError"]

\* not question or not question.strip()
IsBlankOnlyEmpty(question) == question = << >>
IsBlank(question) == question = << >> \/ Strip(question) = << >>

\* if not search_results
NoResultsNever(search_results) == FALSE
NoResults(search_results) == search_results = << >>

\* result.similarity > 0.5
IsRelevantAtLeast(result) == result.similarity >= RelevanceThreshold
IsRelevantLow(result) == result.similarity > HedgedConfidence
IsRelevant(result) == result.similarity > RelevanceThreshold

\* the loop over search_results from position i on: a relevant result is
\* kept, and the loop breaks once max_sources are kept
RECURSIVE FilterFromNoBreak(_, _, _, _)
FilterFromNoBreak(search_results, i, relevant_sources, max_sources) ==
    IF i > Len(search_results) THEN relevant_sources
    ELSE FilterFromNoBreak(search_results, i + 1,
                           IF IsRelevant(search_results[i])
                           THEN Append(relevant_sources, search_results[i])
                           ELSE relevant_sources,
                           max_sources)

RECURSIVE FilterFrom(_, _, _, _)
FilterFrom(search_results, i, relevant_sources, max_sources) ==
    IF i > Len(search_results) THEN relevant_sources
    ELSE LET kept == IF IsRelevant(search_results[i])
                     THEN Append(relevant_sources, search_results[i])
                     ELSE relevant_sources
         IN  IF Len(kept) >= max_sources THEN kept
             ELSE FilterFrom(search_results, i + 1, kept, max_sources)

RECURSIVE SumSimilarity(_)
SumSimilarity(sources) ==
    IF sources = << >> THEN 0
    ELSE Head(sources).similarity + SumSimilarity(Tail(sources))

\* min(0.9, max(0.6, sum(r.similarity ...) / len(relevant_sources)))
LlmConfidenceUnclamped(sources) == Fraction(SumSimilarity(sources), Len(sources))
LlmConfidence(sources) ==
    LET total == SumSimilarity(sources)
        n     == Len(sources)
    IN  IF total <= MinLlmConfidence * n THEN Whole(MinLlmConfidence)
        ELSE IF total >= MaxLlmConfidence * n THEN Whole(MaxLlmConfidence)
        ELSE Fraction(total, n)

\* _generate_llm_answer: the LLM's text, or, when anything raises on the
\* way, the text of _generate_simple_answer
GenerateLlmAnswer(fault) == IF fault = "llm" THEN "simple" ELSE "llm"

\* the limit ask() hands to search(): limit=max_sources * 2
AskLimitExact(max_sources) == max_sources
AskLimit(max_sources) == max_sources * 2

\* what can go wrong in the collaborators of ask(): inside search(), or in
\* the LLM call
AskFaults == SearchFaults \cup {"llm"}

\* the try block of RAGChatbot.ask(question, max_sources): the ChatResponse
\* it constructs (or the exception of the constructor), the list search()
\* returned and the calls made on the way
AskBody(coll, sm, hasLlm, question, max_sources, fault, order) ==
    IF IsBlank(question)
    THEN [out     |-> ChatResponse([answer |-> "Please provide a valid question.",
                                    sources |-> << >>, confidence |-> Whole(0),
                                    query |-> question, error |-> "Empty question"]),
          query   |-> question,
          results |-> << >>,
          calls   |-> << >>]
    ELSE
    LET query   == Strip(question)
        found   == Search(coll, sm, query, AskLimit(max_sources), "None", fault, order)
        search_results == found.ret
        calls   == <<[call |-> "vector_db.search", limit |-> AskLimit(max_sources),
                      expr |-> "None"]>> \o found.calls
        relevant_sources == FilterFrom(search_results, 1, << >>, max_sources)
        out ==
            IF NoResults(search_results)
            THEN ChatResponse([answer |-> "I couldn't find any relevant information",
                               sources |-> << >>, confidence |-> Whole(0),
                               query |-> query])
            ELSE IF relevant_sources = << >>
            THEN ChatResponse([answer |-> "I found some content that might be related",
                               sources |-> Prefix(search_results, max_sources),
                               confidence |-> Whole(HedgedConfidence),
                               query |-> query])
            ELSE IF hasLlm
            THEN ChatResponse([answer |-> GenerateLlmAnswer(fault),
                               sources |-> relevant_sources,
                               confidence |-> LlmConfidence(relevant_sources),
                               query |-> query])
            ELSE ChatResponse([answer |-> "simple",
                               sources |-> relevant_sources,
                               confidence |-> Whole(SimpleConfidence),
                               query |-> query])
    IN  [out |-> out, query |-> query, results |-> search_results, calls |-> calls]

\* RAGChatbot.ask: the try block, and the handler that turns an exception
\* into the apology response; an exception of the handler leaves ask()
Ask(coll, sm, hasLlm, question, max_sources, fault, order) ==
    LET body == AskBody(coll, sm, hasLlm, question, max_sources, fault, order)
    IN  IF ~body.out.raised THEN body
        ELSE [body EXCEPT !.out =
                 ChatResponse([answer |-> "Sorry, I encountered an error",
                               sources |-> << >>, confidence |-> Whole(0),
                               query |-> body.query, error |-> body.out.exc])]

(***************************************************************************)
(* SpecAsk: one search() or ask() call against an index that holds the     *)
(* rows of documents ingested earlier                                      *)
(***************************************************************************)

\* the rows add_content stores for a document
Stored(doc) == Rows(doc, ChunkText(doc.content, ChunkSize, ChunkOverlap))

WebDoc == [url |-> <<"u">>, content_type |-> "web",
           content |-> <<"a", "b", "a", "a", ".", " ", "b", "b", "b", "b">>]
VideoDoc == [url |-> <<"y">>, content_type |-> "youtube", content |-> <<"a", "b", "a">>]

\* the indexes queried: a fresh one, and ones holding one or two documents
Indexes ==
    { << >>,
      Insert(<< >>, Stored(WebDoc)),
      Insert(Insert(<< >>, Stored(WebDoc)), Stored(VideoDoc)) }

\* the questions asked: empty, blank, padded and plain
Questions == { << >>, <<" ">>, <<" ", "q">>, <<"q">> }

ContentTypeFilters == {"None", "web", "youtube"}

InitAsk ==
    /\ chunk_size = ChunkSize
    /\ chunk_overlap = ChunkOverlap
    /\ text = << >>
    /\ start = 0
    /\ chunks = << >>
    /\ windows = << >>
    /\ pc = "idle"
    /\ collection \in Indexes
    /\ lastCall = NoCall
    /\ ingested = [u \in Urls |-> 0]
    /\ life = [u \in Urls |-> "never"]
    /\ LaterIdle
    /\ llm \in BOOLEAN
    /\ sims \in [1..Len(collection) -> SimValues]
    /\ apc = "ready"
    /\ response = NoResponse
    /\ searchLog = << >>

\* a caller runs vector_db.search(query, limit, content_type)
SearchCall ==
    /\ apc = "ready"
    /\ \E q \in Questions \ {<< >>, <<" ">>}, limit \in 1..(2 * MaxSources),
          content_type \in ContentTypeFilters, fault \in SearchFaults :
       \E order \in RankedOrders(Matching(collection, content_type), sims) :
          LET query == Strip(q)
              found == Search(collection, sims, query, limit, content_type, fault, order)
          IN  /\ response' = [op |-> "search", query |-> query, limit |-> limit,
                              content_type |-> content_type, fault |-> fault,
                              ret |-> found.ret]
              /\ searchLog' = found.calls
    /\ apc' = "returned"
    /\ UNCHANGED <<chunk_size, chunk_overlap, text, start, chunks, windows, pc,
                   collection, lastCall, ingested, llm, sims, life, laterVars>>

\* a caller runs chatbot.ask(question, max_sources)
AskCall ==
    /\ apc = "ready"
    /\ \E question \in Questions, max_sources \in 1..MaxSources, fault \in AskFaults :
       \E order \in RankedOrders(Matching(collection, "None"), sims) :
          LET done == Ask(collection, sims, llm, question, max_sources, fault, order)
          IN  /\ fault = "llm" => llm
              /\ response' = [op |-> "ask", question |-> question,
                              max_sources |-> max_sources, fault |-> fault,
                              results |-> done.results, out |-> done.out]
              /\ searchLog' = done.calls
    /\ apc' = "returned"
    /\ UNCHANGED <<chunk_size, chunk_overlap, text, start, chunks, windows, pc,
                   collection, lastCall, ingested, llm, sims, life, laterVars>>

NextAsk == SearchCall \/ AskCall

SpecAsk == InitAsk /\ [][NextAsk]_vars

(***************************************************************************)
(* Claims about ask() and search() (SpecAsk)                               *)
(***************************************************************************)

AskReturned == response.op = "ask" /\ ~response.out.raised
Answered == response.out.value
\* the question is empty or made of whitespace only
BlankQuestion == \A k \in 1..Len(response.question) : response.question[k] \in Whitespace
Asked == response.op = "ask" /\ ~BlankQuestion

C12_SearchFailureIsReported ==
    (Asked /\ response.fault \in {"encode", "index"}) =>
        /\ AskReturned
        /\ Answered.answer = "Sorry, I encountered an error"
        /\ Answered.confidence = Whole(0)
        /\ Answered.sources = << >>
        /\ Answered.error # "None"

\* C13: a search() that failed because the index is unavailable returns
\* something a search() that succeeded without hits does not return
C13_UnavailableIsDistinguishable ==
    (response.op = "search" /\ response.fault = "index") =>
        \A ct \in ContentTypeFilters, limit \in 1..(2 * MaxSources) :
            response.ret # Search(<< >>, << >>, response.query, limit, ct, "none", << >>).ret

\* the candidates search() handed to ask(), and those above the threshold
Candidates == response.results
AboveThreshold == SelectSeq(Candidates, LAMBDA r : r.similarity > RelevanceThreshold)

\* s is the first n elements of t (all of t when t is shorter)
FirstOf(s, n, t) ==
    /\ Len(s) = Min(n, Len(t))
    /\ \A k \in 1..Len(s) : s[k] = t[k]

\* C14: when search returns at least one candidate and none has a
\* similarity above 0.5, ask() returns the first max_sources candidates in
\* search order, the hedged answer, and confidence exactly 0.3
C14_LowRelevancePath ==
    (Asked /\ Candidates # << >> /\ AboveThreshold = << >>) =>
        /\ AskReturned
        /\ FirstOf(Answered.sources, response.max_sources, Candidates)
        /\ Answered.answer = "I found some content that might be related"
        /\ Answered.confidence = Whole(HedgedConfidence)
        /\ Answered.error = "None"

\* the low-relevance path with a candidate exactly at the threshold and
\* more candidates than max_sources
C14_Witness ==
    /\ Asked /\ AskReturned
    /\ AboveThreshold = << >>
    /\ Len(Candidates) > response.max_sources
    /\ Candidates[1].similarity = RelevanceThreshold
    /\ Len(Answered.sources) = response.max_sources

\* C15: when at least one candidate has a similarity above 0.5, the sources
\* are exactly the first max_sources candidates, in search order, whose
\* similarity is above 0.5, so never more than max_sources (max_sources >= 1)
C15_HighRelevancePath ==
    (Asked /\ AboveThreshold # << >> /\ response.max_sources >= 1) =>
        /\ AskReturned
        /\ FirstOf(Answered.sources, response.max_sources, AboveThreshold)
        /\ Len(Answered.sources) <= response.max_sources

\* more candidates above the threshold than max_sources, of different
\* similarity
C15_Witness ==
    /\ Asked /\ AskReturned
    /\ Len(AboveThreshold) > response.max_sources
    /\ AboveThreshold[1].similarity > AboveThreshold[2].similarity
    /\ Len(Answered.sources) = response.max_sources

\* the fraction c equals the mean of the similarities of sources, clamped
\* to [lo, hi]
IsClampedMean(c, sources, lo, hi) ==
    LET total == SumSimilarity(sources)
        n     == Len(sources)
    IN  /\ c.den > 0
        /\ total < lo * n => c.num = lo * c.den
        /\ total > hi * n => c.num = hi * c.den
        /\ (lo * n <= total /\ total <= hi * n) => c.num * n = total * c.den

\* C16: on the high-relevance path the confidence is the mean similarity of
\* the kept sources clamped to [0.6, 0.9] when the chatbot has an LLM, and
\* exactly 0.5 when it has none
C16_HighRelevanceConfidence ==
    (Asked /\ AboveThreshold # << >>) =>
        /\ AskReturned
        /\ llm => IsClampedMean(Answered.confidence, Answered.sources,
                                MinLlmConfidence, MaxLlmConfidence)
        /\ ~llm => Answered.confidence = Whole(SimpleConfidence)

\* an LLM answer over two sources whose mean lies strictly between the clamps
C16_Witness ==
    /\ Asked /\ AskReturned /\ llm
    /\ Len(Answered.sources) = 2
    /\ SumSimilarity(Answered.sources) > 2 * MinLlmConfidence
    /\ SumSimilarity(Answered.sources) < 2 * MaxLlmConfidence
    /\ Answered.confidence.den = 2

\* the search handed ask() a 0.9 and a 0.4 candidate and max_sources is 2
MixedCandidates ==
    /\ Asked /\ response.max_sources = 2
    /\ Len(Candidates) = 2
    /\ Candidates[1].similarity = 90
    /\ Candidates[2].similarity = 40

\* C17: with candidates of similarity 0.9 and 0.4 and max_sources = 2, ask()
\* keeps only the 0.9 chunk and reports a confidence of at least 0.6, with
\* or without an LLM
C17_MixedRelevance ==
    MixedCandidates =>
        /\ AskReturned
        /\ Answered.sources = <<Candidates[1]>>
        /\ Answered.confidence.num >= MinLlmConfidence * Answered.confidence.den

\* C17 as the code has it: only the 0.9 chunk is kept; the confidence is 0.9
\* when the chatbot has an LLM and exactly 0.5 when it has none
C17_MixedRelevanceByLlm ==
    MixedCandidates =>
        /\ AskReturned
        /\ Answered.sources = <<Candidates[1]>>
        /\ llm => Answered.confidence = Whole(MaxLlmConfidence)
        /\ ~llm => Answered.confidence = Whole(SimpleConfidence)

\* the 0.9 / 0.4 question answered by a chatbot without an LLM
C17_Witness ==
    /\ MixedCandidates /\ AskReturned /\ ~llm
    /\ Answered.answer = "simple"

\* C18: on an index without records search() returns the empty list and
\* ask() returns the "nothing found" answer with confidence 0.0, no sources
\* and no error
C18_EmptyIndex ==
    collection = << >> =>
        /\ (response.op = "search" /\ response.fault = "none") => response.ret = << >>
        /\ (Asked /\ response.fault \in {"none", "llm"}) =>
               /\ AskReturned
               /\ Candidates = << >>
               /\ Answered.answer = "I couldn't find any relevant information"
               /\ Answered.confidence = Whole(0)
               /\ Answered.sources = << >>
               /\ Answered.error = "None"

\* a question asked, without any failure, of an index that has no records
C18_Witness ==
    /\ collection = << >>
    /\ Asked /\ AskReturned /\ response.fault = "none"
    /\ Len(searchLog) = 2

\* C19: an empty or whitespace-only question gets confidence 0.0, no
\* sources and a populated error, and no search is issued for it
C19_InvalidQuery ==
    (response.op = "ask" /\ BlankQuestion) =>
        /\ AskReturned
        /\ Answered.confidence = Whole(0)
        /\ Answered.sources = << >>
        /\ Answered.error # "None"
        /\ searchLog = << >>

\* a whitespace-only question put to an index that holds records
C19_Witness ==
    /\ response.op = "ask" /\ AskReturned
    /\ response.question = <<" ">>
    /\ collection # << >>

\* C20: search(query, limit) returns at most limit results, and their
\* similarity never increases along the list
C20_SimilarityOrdering ==
    response.op = "search" =>
        /\ Len(response.ret) <= response.limit
        /\ \A k \in 1..(Len(response.ret) - 1) :
              response.ret[k].similarity >= response.ret[k + 1].similarity

\* a search cut at its limit, with results of different similarity
C20_Witness ==
    /\ response.op = "search"
    /\ Len(response.ret) = response.limit
    /\ Cardinality(Matching(collection, response.content_type)) > response.limit
    /\ response.limit >= 2
    /\ response.ret[1].similarity > response.ret[2].similarity

(***************************************************************************)
(* SpecIndex: add_content and delete_by_url calls on the index, followed   *)
(* by one search() against what they left in it                            *)
(***************************************************************************)

\* the scores of the rows in these runs: one below, one above the threshold
IndexSims == {40, 90}

InitIndex ==
    /\ chunk_size = ChunkSize
    /\ chunk_overlap = ChunkOverlap
    /\ text = << >>
    /\ start = 0
    /\ chunks = << >>
    /\ windows = << >>
    /\ pc = "idle"
    /\ collection = << >>
    /\ lastCall = NoCall
    /\ ingested = [u \in Urls |-> 0]
    /\ life = [u \in Urls |-> "never"]
    /\ llm = FALSE
    /\ sims = << >>
    /\ apc = "ready"
    /\ response = NoResponse
    /\ searchLog = << >>
    /\ LaterIdle

\* the documents ingested in these runs: two pages of one url, one video
IndexDocs ==
    {WebDoc, VideoDoc,
     [url |-> <<"u">>, content_type |-> "web", content |-> <<"a", "b", "b">>]}

\* a caller ingests a document before the search
IngestBefore ==
    /\ apc = "ready"
    /\ \E doc \in IndexDocs, fault \in AddFaults \ {"embed"} :
          AddContent(doc, fault, 0)

\* a caller deletes a source before the search
DeleteBefore ==
    /\ apc = "ready"
    /\ \E url \in Urls, fault \in DeleteFaults : DeleteByUrl(url, fault)

\* a caller runs vector_db.search(query, limit, content_type) on the index
\* as it is now; Milvus scores the rows against the query
SearchStored ==
    /\ apc = "ready"
    /\ \E sm \in [1..Len(collection) -> IndexSims], limit \in 1..MaxRecords,
          content_type \in ContentTypeFilters, fault \in SearchFaults :
       \E order \in RankedOrders(Matching(collection, content_type), sm) :
          LET found == Search(collection, sm, <<"q">>, limit, content_type, fault, order)
          IN  /\ sims' = sm
              /\ response' = [op |-> "search", query |-> <<"q">>, limit |-> limit,
                              content_type |-> content_type, fault |-> fault,
                              ret |-> found.ret]
              /\ searchLog' = found.calls
    /\ apc' = "returned"
    /\ UNCHANGED <<chunk_size, chunk_overlap, text, start, chunks, windows, pc,
                   collection, lastCall, ingested, llm, life, laterVars>>

NextIndex == IngestBefore \/ DeleteBefore \/ SearchStored

SpecIndex == InitIndex /\ [][NextIndex]_vars

\* C21: once rows of a url were stored and a delete_by_url of that url has
\* returned True, no search returns a chunk of that url until rows of the
\* url are stored again
C21_DeletedSourceNotFound ==
    response.op = "search" =>
        \A k \in 1..Len(response.ret) :
            life[response.ret[k].chunk.source_url] # "deleted"

\* a search that found chunks of one source after the other source, once
\* stored, was deleted
C21_Witness ==
    /\ response.op = "search" /\ response.fault = "none"
    /\ response.ret # << >>
    /\ \E u \in Urls : life[u] = "deleted"

\* C22: a delete_by_url(url) during which Milvus raises nothing returns
\* True, removes exactly the rows of that url and leaves the rows of every
\* other url as they were, in their order; without a row of that url it
\* changes nothing, so a second delete_by_url(url) has no further effect
C22_DeleteFrame ==
    [][ (lastCall'.op = "delete_by_url" /\ lastCall'.fault = "none") =>
          LET u == lastCall'.url
              others(coll) == SelectSeq(coll, LAMBDA r : r.source_url # u)
          IN  /\ lastCall'.ret
              /\ RowsOfUrl(collection', u) = {}
              /\ others(collection') = others(collection)
              /\ Len(collection') = Len(collection) - Cardinality(RowsOfUrl(collection, u))
              /\ RowsOfUrl(collection, u) = {} => collection' = collection ]_vars

\* a delete_by_url that returned True for a url that had been stored, with
\* rows of another url still in the collection
C22_Witness ==
    /\ lastCall.op = "delete_by_url" /\ lastCall.ret
    /\ life[lastCall.url] = "deleted"
    /\ collection # << >>

(***************************************************************************)
(* SpecWorkers: two add_content calls on one VectorDatabase, for documents *)
(* of different urls, running side by side (one thread each)              *)
(***************************************************************************)

Workers == {1, 2}

\* the url each thread ingests
WorkerUrl(w) == IF w = 1 THEN <<"u">> ELSE <<"y">>

\* a thread about to call add_content(doc), and the collaborator call that
\* will raise in it
NewWorker(doc, fault) ==
    [doc |-> doc, fault |-> fault, pc |-> "call", chunks |-> << >>,
     rows |-> << >>, ret |-> "None"]

InitWorkers ==
    /\ chunk_size = ChunkSize
    /\ chunk_overlap = ChunkOverlap
    /\ text = << >>
    /\ start = 0
    /\ chunks = << >>
    /\ windows = << >>
    /\ pc = "idle"
    /\ collection = << >>
    /\ lastCall = NoCall
    /\ ingested = [u \in Urls |-> 0]
    /\ life = [u \in Urls |-> "never"]
    /\ AskIdle
    /\ pipeline = [op |-> "none"]
    /\ ldb = [op |-> "none"]
    /\ workers \in {wk \in [Workers -> {NewWorker(d, f) : d \in Docs, f \in AddFaults}] :
                       \A w \in Workers : wk[w].doc.url = WorkerUrl(w)}

\* what a thread's step leaves alone besides the collection
workerFrame == <<chunk_size, chunk_overlap, text, start, chunks, windows, pc,
                 lastCall, ingested, life, pipeline, ldb, askVars>>

\* return False, from the handler of the try block or for want of chunks
ReturnedFalse(wk) == [wk EXCEPT !.pc = "done", !.ret = FALSE]

\* chunks = self._chunk_text(content_data['content']); return False when
\* there is none
WorkerChunk(w) ==
    LET wk  == workers[w]
        cks == ChunkText(wk.doc.content, chunk_size, chunk_overlap)
    IN  /\ wk.pc = "call"
        /\ workers' = [workers EXCEPT ![w] =
              IF cks = << >> THEN ReturnedFalse(wk)
              ELSE [wk EXCEPT !.pc = "encode", !.chunks = cks]]
        /\ UNCHANGED <<collection, workerFrame>>

\* one iteration of the loop over the chunks: the embedding, the id and the
\* entries appended to the local lists; model.encode raises in some
\* iteration when the fault is "embed"
WorkerEncode(w) ==
    LET wk == workers[w]
        i  == Len(wk.rows) + 1
        appended == [wk EXCEPT !.rows = Append(@, Rows(wk.doc, wk.chunks)[i]),
                               !.pc = IF i = Len(wk.chunks) THEN "insert" ELSE "encode"]
    IN  /\ wk.pc = "encode"
        /\ \/ wk.fault = "embed" /\ workers' = [workers EXCEPT ![w] = ReturnedFalse(wk)]
           \/ (wk.fault = "embed" => i < Len(wk.chunks))
                /\ workers' = [workers EXCEPT ![w] = appended]
        /\ UNCHANGED <<collection, workerFrame>>

\* self.collection.insert(data)
WorkerInsert(w) ==
    LET wk == workers[w]
    IN  /\ wk.pc = "insert"
        /\ IF wk.fault = "insert"
           THEN /\ workers' = [workers EXCEPT ![w] = ReturnedFalse(wk)]
                /\ UNCHANGED collection
           ELSE /\ collection' = Insert(collection, wk.rows)
                /\ workers' = [workers EXCEPT ![w].pc = "flush"]
        /\ UNCHANGED workerFrame

\* self.collection.flush(); return True
WorkerFlush(w) ==
    LET wk == workers[w]
    IN  /\ wk.pc = "flush"
        /\ workers' = [workers EXCEPT ![w] =
              IF wk.fault = "flush" THEN ReturnedFalse(wk)
              ELSE [wk EXCEPT !.pc = "done", !.ret = TRUE]]
        /\ UNCHANGED <<collection, workerFrame>>

NextWorkers ==
    \/ \E w \in Workers : WorkerChunk(w)
    \/ \E w \in Workers : WorkerEncode(w)
    \/ \E w \in Workers : WorkerInsert(w)
    \/ \E w \in Workers : WorkerFlush(w)

SpecWorkers == InitWorkers /\ [][NextWorkers]_vars

\* C23: for every interleaving of two add_content calls on different urls,
\* once both have returned the collection holds, for each url, exactly the
\* rows the call would have stored when run alone, and nothing else
C23_ConcurrentIngestion ==
    (\A w \in Workers : workers[w].pc = "done") =>
        /\ \A w \in Workers :
              SelectSeq(collection, LAMBDA r : r.source_url = WorkerUrl(w))
                 = IF workers[w].fault \in {"none", "flush"}
                   THEN Rows(workers[w].doc,
                             ChunkText(workers[w].doc.content, ChunkSize, ChunkOverlap))
                   ELSE << >>
        /\ \A k \in 1..Len(collection) : \E w \in Workers : collection[k].source_url = WorkerUrl(w)
        /\ \A w \in Workers : workers[w].ret = (workers[w].fault = "none" /\ workers[w].chunks # << >>)

\* both calls have returned True, the second thread's rows were inserted
\* first, and the first thread stored two chunks
C23_Witness ==
    /\ \A w \in Workers : workers[w].pc = "done" /\ workers[w].ret = TRUE
    /\ Len(collection) = 3
    /\ collection[1].source_url = WorkerUrl(2)

(***************************************************************************)
(* SpecSnap: the chunker loop on texts with two kinds of sentence ending,  *)
(* with a chunk size that leaves room for two endings past the midpoint    *)
(***************************************************************************)

\* chunk_size of these runs
SnapChunkSize == 9

SnapAlphabet == {"a", " ", ".", "!"}

RECURSIVE SnapTailsOfLen(_)
SnapTailsOfLen(n) ==
    IF n = 0 THEN {<< >>}
    ELSE {Append(s, c) : s \in SnapTailsOfLen(n - 1), c \in SnapAlphabet}

\* the texts chunked: letters up to just past the midpoint of the first
\* window, then any text that makes the whole longer than chunk_size
SnapTexts ==
    LET head == [i \in 1..(SnapChunkSize \div 2 + 1) |-> "a"]
        rest == SnapChunkSize - Len(head)
    IN  {head \o t : t \in SnapTailsOfLen(rest + 1) \cup SnapTailsOfLen(rest + 2)}

InitSnap ==
    /\ chunk_size = SnapChunkSize
    /\ chunk_overlap = ChunkOverlap
    /\ text \in SnapTexts
    /\ start = 0
    /\ chunks = << >>
    /\ windows = << >>
    /\ pc = "call"
    /\ collection = << >>
    /\ lastCall = NoCall
    /\ ingested = [u \in Urls |-> 0]
    /\ life = [u \in Urls |-> "never"]
    /\ AskIdle
    /\ LaterIdle

SpecSnap == InitSnap /\ [][NextChunk]_vars

\* the positions, in the window that starts at st, of the sentence endings
\* ('. ', '! ', '? ', blank line) that lie inside the window and past its
\* midpoint
EndingsPastMidpoint(st) ==
    {p \in st..(st + chunk_size - 2) :
        /\ p > st + chunk_size \div 2
        /\ \E k \in 1..Len(Puncts) : Slice(text, p, p + 2) = Puncts[k]}

\* C24: a window whose right edge falls strictly inside the text ends just
\* after the sentence ending nearest to that edge among those past the
\* midpoint, whichever of the four kinds it is, and at the raw chunk_size
\* cut when there is none
C24_SnapsToNearestEnding ==
    \A i \in 1..Len(windows) :
        LET st   == windows[i][1]
            en   == windows[i][2]
            ends == EndingsPastMidpoint(st)
        IN  st + chunk_size < Len(text) =>
               IF ends = {} THEN en = st + chunk_size
               ELSE \E p \in ends : (\A q \in ends : q <= p) /\ en = p + 2

\* the calls of the served query that reached search() and the collection
SearchCalls == SelectSeq(searchLog, LAMBDA c : c.call = "vector_db.search")
IndexCalls == SelectSeq(searchLog, LAMBDA c : c.call = "collection.search")

\* C25: search(query, limit) requests limit * 2 candidates from the index
\* and returns at most limit of them
C25_SearchOverFetches ==
    response.op = "search" =>
        /\ \A k \in 1..Len(IndexCalls) : IndexCalls[k].limit = 2 * response.limit
        /\ Len(response.ret) <= response.limit

\* C25 as the code has it: search(query, limit) requests limit candidates
\* from the index and returns at most limit; the over-fetch is made by
\* ask(question, max_sources), which calls search with limit =
\* max_sources * 2 and returns at most max_sources sources
C25_AskOverFetches ==
    /\ response.op = "search" =>
          /\ \A k \in 1..Len(IndexCalls) : IndexCalls[k].limit = response.limit
          /\ Len(response.ret) <= response.limit
    /\ Asked =>
          /\ Len(SearchCalls) = 1
          /\ SearchCalls[1].limit = 2 * response.max_sources
          /\ \A k \in 1..Len(IndexCalls) : IndexCalls[k].limit = 2 * response.max_sources
          /\ Len(Candidates) <= 2 * response.max_sources
          /\ AskReturned /\ Len(Answered.sources) <= response.max_sources

\* an ask() that got more candidates than max_sources from its search and
\* kept max_sources of them
C25_Witness ==
    /\ Asked /\ AskReturned
    /\ Len(IndexCalls) = 1
    /\ Len(Candidates) > response.max_sources
    /\ Len(Answered.sources) = response.max_sources

\* the character positions (0-based) of the text inside window i
Covered(i) == {q \in windows[i][1]..(Min(windows[i][2], Len(text)) - 1) : q >= 0}

\* C26: for a text longer than chunk_size, every window after the first
\* contains a character position of the text that the window before it
\* does not contain
C26_NoRedundantChunk ==
    Len(text) > chunk_size =>
        \A i \in 2..Len(windows) : Covered(i) \ Covered(i - 1) # {}

\* C27: when ask() returns the templated fallback answer on the
\* high-relevance path, because there is no LLM or because the LLM call
\* failed, the confidence is exactly 0.5; a confidence in [0.6, 0.9] comes
\* only with an answer text the LLM produced
C27_FallbackConfidence ==
    (Asked /\ AboveThreshold # << >> /\ AskReturned) =>
        /\ Answered.answer = "simple" => Answered.confidence = Whole(SimpleConfidence)
        /\ (/\ Answered.confidence.num >= MinLlmConfidence * Answered.confidence.den
            /\ Answered.confidence.num <= MaxLlmConfidence * Answered.confidence.den)
              => Answered.answer = "llm"

(***************************************************************************)
(* src/pipeline.py: POST /api/find-resources and its background task.      *)
(* The handler and the task are coroutines without an await: each runs to  *)
(* its end on the server's event loop before anything else is served. A    *)
(* task starts after the response of its request was sent, so other        *)
(* requests can be served between the two.                                 *)
(***************************************************************************)

\* requests served in one run
MaxRequests == 3

\* what find_learning_resources can give: url lists, an error entry, or an
\* exception
UrlLists == {<<"k">>, <<"k", "m">>}
FinderOutcomes == {"ok", "error", "raise"}

\* the pipeline server after startup_event: PipelineState() and
\* pipeline.initialize(), which may fail and leave vector_db None
ServerState(db_ready, is_processing, last_resources, last_update) ==
    [op |-> "server",
     vector_db |-> db_ready, chatbot |-> FALSE,
     is_processing |-> is_processing,
     last_resources |-> last_resources,
     last_update |-> last_update,
     now |-> last_update + 1,      \* datetime.now() of the next request
     tasks |-> << >>,              \* background tasks added and not yet run
     served |-> 0,
     reply |-> [status |-> 0]]

\* raise HTTPException(status_code=..., detail=...) inside the try block:
\* HTTPException is an Exception, so the handler of line 185 catches it and
\* raises HTTPException(500, "Error finding resources: ...") in its place
Caught(status) == 500

\* find_resources_endpoint: the response, and the pipeline after it
FindResources(p, outcome, urls) ==
    LET seen == [observed |-> p.is_processing,
                 before |-> <<p.last_resources, p.last_update>>]
        q    == [p EXCEPT !.served = @ + 1, !.now = @ + 1]
    IN  IF p.is_processing
        THEN \* line 151
             [q EXCEPT !.reply = [status |-> Caught(409)] @@ seen]
        ELSE IF outcome = "raise"
        THEN [q EXCEPT !.reply = [status |-> 500] @@ seen]
        ELSE IF outcome = "error"
        THEN \* line 174
             [q EXCEPT !.reply = [status |-> Caught(500)] @@ seen]
        ELSE [q EXCEPT !.last_resources = urls,
                       !.last_update = p.now,
                       !.tasks = Append(@, urls),
                       !.reply = [status |-> 200] @@ seen]

\* process_resources_background(urls), from is_processing = True to the
\* finally clause that resets it
ProcessResources(p) ==
    [p EXCEPT !.tasks = Tail(@),
              !.chatbot = @ \/ p.vector_db,
              !.is_processing = FALSE]

pipelineFrame == <<chunk_size, chunk_overlap, text, start, chunks, windows, pc,
                   collection, lastCall, ingested, life, workers, ldb, askVars>>

\* a POST /api/find-resources is served
FindResourcesEndpoint ==
    /\ pipeline.op = "server"
    /\ pipeline.served < MaxRequests
    /\ \E outcome \in FinderOutcomes, urls \in UrlLists :
          pipeline' = FindResources(pipeline, outcome, urls)
    /\ UNCHANGED pipelineFrame

\* the oldest background task runs
ProcessResourcesBackground ==
    /\ pipeline.op = "server"
    /\ pipeline.tasks # << >>
    /\ pipeline' = ProcessResources(pipeline)
    /\ UNCHANGED pipelineFrame

PipelineIdleRest ==
    /\ chunk_size = ChunkSize
    /\ chunk_overlap = ChunkOverlap
    /\ text = << >>
    /\ start = 0
    /\ chunks = << >>
    /\ windows = << >>
    /\ pc = "idle"
    /\ collection = << >>
    /\ lastCall = NoCall
    /\ ingested = [u \in Urls |-> 0]
    /\ life = [u \in Urls |-> "never"]
    /\ AskIdle
    /\ workers = << >>
    /\ ldb = [op |-> "none"]

\* the server after startup
InitPipeline ==
    /\ PipelineIdleRest
    /\ \E db_ready \in BOOLEAN : pipeline = ServerState(db_ready, FALSE, << >>, 0)

NextPipeline == FindResourcesEndpoint \/ ProcessResourcesBackground

SpecPipeline == InitPipeline /\ [][NextPipeline]_vars

\* SpecEndpoint: the handler entered in any state of the pipeline object,
\* also with is_processing set
InitEndpoint ==
    /\ PipelineIdleRest
    /\ \E db_ready, is_processing \in BOOLEAN,
          last_resources \in UrlLists \cup {<< >>}, last_update \in 0..MaxRequests :
          pipeline = ServerState(db_ready, is_processing, last_resources, last_update)

SpecEndpoint == InitEndpoint /\ [][NextPipeline]_vars

\* C28: the server accepts no POST /api/find-resources while the background
\* processing of an earlier accepted request is pending or running
C28_NoAdmissionWhileBusy ==
    pipeline.op = "server" => Len(pipeline.tasks) <= 1

MaxCalls == 3

\* max_sources of RAGChatbot.ask when the caller leaves it out
DefaultMaxSources == 3

\* what vector_db.connect() can do: return, or re-raise a MilvusException
ConnectFaults == {"none", "milvus"}

\* the lines that end a chat session, of ['quit', 'exit', 'bye', 'q']
ExitCommands == { <<"q", "u", "i", "t">>, <<"q">> }

\* the first line the user types in a chat session
ChatLines == Questions \cup { <<"q", "u", "i", "t">>, <<"q", "q">> }

\* LearningResourceVectorDB.__init__: no chatbot yet.  available is the
\* module's CHATBOT_AVAILABLE, set when vector_database is imported: TRUE if
\* "from rag_chatbot import RAGChatbot" found the module, FALSE on ImportError
NewLdb(available) ==
    [op |-> "ldb",
     CHATBOT_AVAILABLE |-> available,
     chatbot |-> FALSE,            \* self.chatbot is not None
     initialized |-> "no",         \* the last initialize(): "returned", "raised"
     calls |-> 0,
     last |-> [op |-> "none"]]

\* initialize(): connect, then build the chatbot if the class was imported;
\* an exception of the constructor is logged and swallowed
InitializeLdb(d, connect, ctorRaises) ==
    IF connect # "none"
    THEN [d EXCEPT !.initialized = "raised", !.calls = @ + 1,
                   !.last = [op |-> "initialize", raised |-> "MilvusException"]]
    ELSE [d EXCEPT !.chatbot = d.CHATBOT_AVAILABLE /\ ~ctorRaises,
                   !.initialized = "returned", !.calls = @ + 1,
                   !.last = [op |-> "initialize", raised |-> "none"]]

\* ask_question(question, max_sources): RuntimeError without a chatbot,
\* else what chatbot.ask returns
AskQuestionLdb(d, question, max_sources, fault, order) ==
    IF ~d.chatbot
    THEN [d EXCEPT !.calls = @ + 1,
                   !.last = [op |-> "ask_question", raised |-> "RuntimeError"]]
    ELSE [d EXCEPT !.calls = @ + 1,
                   !.last = [op |-> "ask_question", raised |-> "none",
                             question |-> question,
                             out |-> Ask(collection, sims, llm, question,
                                         max_sources, fault, order).out]]

\* start_chat(): RuntimeError without a chatbot, else chat_session(): the
\* line is stripped; an exit command ends the session, an empty line is
\* skipped, any other is answered with ask(line); the session returns None
\* when the user quits (here after the first line)
StartChatLdb(d, line, fault, order) ==
    IF ~d.chatbot
    THEN [d EXCEPT !.calls = @ + 1,
                   !.last = [op |-> "start_chat", raised |-> "RuntimeError"]]
    ELSE LET user_input == Strip(line)
             answered == user_input \notin ExitCommands /\ user_input # << >>
         IN  [d EXCEPT !.calls = @ + 1,
                       !.last = [op |-> "start_chat", raised |-> "none",
                                 line |-> line, answered |-> answered,
                                 out |-> IF answered
                                         THEN Ask(collection, sims, llm, user_input,
                                                  DefaultMaxSources, fault, order).out
                                         ELSE NoResponse]]

ldbFrame == <<chunk_size, chunk_overlap, text, start, chunks, windows, pc,
              collection, lastCall, ingested, life, workers, pipeline, askVars>>

Initialize ==
    /\ ldb.op = "ldb"
    /\ ldb.calls < MaxCalls
    /\ \E connect \in ConnectFaults, ctorRaises \in BOOLEAN :
          ldb' = InitializeLdb(ldb, connect, ctorRaises)
    /\ UNCHANGED ldbFrame

AskQuestion ==
    /\ ldb.op = "ldb"
    /\ ldb.calls < MaxCalls
    /\ \E question \in Questions, max_sources \in 1..MaxSources, fault \in SearchFaults :
       \E order \in RankedOrders(Matching(collection, "None"), sims) :
          ldb' = AskQuestionLdb(ldb, question, max_sources, fault, order)
    /\ UNCHANGED ldbFrame

StartChat ==
    /\ ldb.op = "ldb"
    /\ ldb.calls < MaxCalls
    /\ \E line \in ChatLines, fault \in SearchFaults :
       \E order \in RankedOrders(Matching(collection, "None"), sims) :
          ldb' = StartChatLdb(ldb, line, fault, order)
    /\ UNCHANGED ldbFrame

\* the collection the object connects to: a fresh one, or one that holds the
\* rows of a document stored in an earlier run
LdbIndexes == { << >>, Insert(<< >>, Stored(VideoDoc)) }

InitLdb ==
    /\ chunk_size = ChunkSize
    /\ chunk_overlap = ChunkOverlap
    /\ text = << >>
    /\ start = 0
    /\ chunks = << >>
    /\ windows = << >>
    /\ pc = "idle"
    /\ collection \in LdbIndexes
    /\ lastCall = NoCall
    /\ ingested = [u \in Urls |-> 0]
    /\ life = [u \in Urls |-> "never"]
    /\ llm \in BOOLEAN
    /\ sims \in [1..Len(collection) -> IndexSims]
    /\ apc = "idle"
    /\ response = NoResponse
    /\ searchLog = << >>
    /\ workers = << >>
    /\ pipeline = [op |-> "none"]
    /\ \E available \in BOOLEAN : ldb = NewLdb(available)

NextLdb == Initialize \/ AskQuestion \/ StartChat

SpecLdb == InitLdb /\ [][NextLdb]_vars

\* C30: once initialize() has returned without raising, ask_question() and
\* start_chat() do not raise RuntimeError("Database not initialized. Call
\* initialize() first.")
C30_InitializedCanAsk ==
    (ldb.op = "ldb" /\ ldb.initialized = "returned"
        /\ ldb.last.op \in {"ask_question", "start_chat"}) =>
        ldb.last.raised # "RuntimeError"

====
